---- MODULE Spec2Model ----
(***************************************************************************)
(* Parallel file encrypter / decrypter with CPU-style scheduling.          *)
(*                                                                         *)
(* src/scheduler.py  : Task, TaskScheduler (FCFS, SJF, Round Robin)        *)
(* src/encryption.py : FileEncryption (_encrypt_chunk, _decrypt_chunk,     *)
(*                     _worker_process, encrypt_file_parallel,             *)
(*                     decrypt_file_parallel)                              *)
(*                                                                         *)
(* The specifications share the variables:                                 *)
(*   SchedSpec  : a TaskScheduler driven directly (add_task,               *)
(*                schedule_tasks, reset) with arbitrary task sizes;        *)
(*   Spec       : one encrypt_file_parallel run followed by one            *)
(*                decrypt_file_parallel run, with the worker threads       *)
(*                interleaved step by step;                                *)
(*   FairSpec   : those runs under fair thread scheduling;                 *)
(*   TimedSpec  : those runs with time.time() advancing between the        *)
(*                readings of the workers;                                 *)
(*   CancelSpec : those runs with a request to cancel made on the way;     *)
(*   ReuseSpec  : those runs with one TaskScheduler for both calls;         *)
(*   ChunkSpec  : _encrypt_chunk and _decrypt_chunk on one chunk.          *)
(***************************************************************************)
EXTENDS Integers, Sequences, FiniteSets, TLC

\* ------------------------------------------------------------------ bounds
MaxTasks == 3        \* SchedSpec: tasks registered with one scheduler
MaxLen == 3          \* Spec: length of the plaintext, in bytes
MaxChunk == 2        \* Spec: chunk_size, in bytes
MaxWorkers == 2      \* Spec: max_workers
MaxQuantum == 2      \* Spec: Round Robin time_quantum
MaxCalls == 2        \* SchedSpec: schedule_tasks calls on one scheduler
MaxClock == 2        \* SchedSpec: ticks of time.time() between registrations
MaxTicks == 1        \* TimedSpec: ticks of time.time() during one run
MaxChunkLen == 33    \* ChunkSpec: length of one chunk, in bytes

\* ------------------------------------------------------- program constants
BlockSize == 16      \* AES block size, and the length of an IV

\* The algorithm names schedule_tasks knows, and one it does not.
Algorithms == {"FCFS", "SJF", "Round Robin", "LIFO"}

\* Task sizes and quanta of SchedSpec (the spec's examples use 100..900 and 200).
Sizes == {0, 100, 300, 500, 900}
Quanta == {0 - 200, 0, 200, 400}

\* 'remaining' of a schedule entry that has none (FCFS and SJF entries).
NoValue == 0 - 1

VARIABLES
    \* --- TaskScheduler
    algorithm,        \* self.algorithm
    time_quantum,     \* self.time_quantum; 0 stands for None and for 0, which
                      \* line 82 (`if not self.time_quantum`) treats alike
    tasks,            \* self.tasks: sequence of Task records
    clock,            \* time.time() as seen by Task.__init__
    \* --- the caller of schedule_tasks
    scheduled_tasks,  \* the list schedule_tasks returned
    sched_error,      \* "" or the ValueError schedule_tasks raised
    calls,            \* schedule_tasks calls made on the scheduler so far
    sched_input,      \* history: self.tasks when schedule_tasks was last called
    sched_hung,       \* TRUE when the schedule_tasks call made never returns
    \* --- one encrypt_file_parallel / decrypt_file_parallel run
    operation,        \* "encrypt" | "decrypt"
    plaintext,        \* the bytes of the input file of the encrypt run
    password,         \* key material: the password of the encrypt run
    password2,        \* the password of the decrypt run
    chunk_size,
    max_workers,
    salt,             \* the salt of the encrypt run
    key,              \* the key derived for the current run
    error,            \* "" or the exception that ended the run
    chunks,           \* chunks[i+1] = chunk_data of chunk id i
    pc,               \* the orchestrator's position
    loop_i,           \* iterations done of the for loop the orchestrator is in
    task_queue,       \* queue.Queue of tasks; a sentinel is the None record
    result_queue,     \* queue.Queue of result dicts
    results,          \* results: chunk id -> data (a function on the ids stored)
    gantt_data,
    completed_chunks,
    start_time,       \* the orchestrator's start_time (line 152)
    progress,         \* the calls made to progress_bar.progress, in order,
                      \* each <<completed_chunks, len(chunks)>>
    cancel_requested, \* the user has asked for the run to be cancelled
    wstate,           \* per worker: "unstarted" | "polling" | "working" | "exited"
    wtask,            \* per worker: the task it is processing
    wstart,           \* per worker: actual_start of that task (line 71)
    enc_file,         \* the .enc file: NoFile or [salt, chunk_count, frames]
    dec_file,         \* the decrypted output file: NoFile or [bytes]
    in_file,          \* the file handed to decrypt_file_parallel
    \* --- history (not program state)
    dispatched,       \* chunk ids put on task_queue, in order
    taken,            \* chunk ids taken by workers, in order
    written_ids,      \* chunk ids whose bytes were written to the output
    failed_ids        \* chunk ids of the failure results collected

sched_vars == <<algorithm, time_quantum, tasks, clock, scheduled_tasks,
                sched_error, calls, sched_input, sched_hung>>
run_vars == <<operation, plaintext, password, password2, chunk_size,
              max_workers, salt, key, error, chunks, pc, loop_i, task_queue,
              result_queue, results, gantt_data, completed_chunks,
              start_time, progress, cancel_requested, wstate, wtask, wstart,
              enc_file, dec_file, in_file, dispatched, taken, written_ids,
              failed_ids>>
vars == <<sched_vars, run_vars>>
\* sched_vars without the clock
sched_state_vars == <<algorithm, time_quantum, tasks, scheduled_tasks,
                      sched_error, calls, sched_input, sched_hung>>

\* ---------------------------------------------------------------- helpers
Min(a, b) == IF a <= b THEN a ELSE b

\* Number of positions of s holding x.
Count(s, x) == Cardinality({i \in 1..Len(s) : s[i] = x})

\* Python's sorted(s, key=...): ascending by key, stable.  keys[i] is the key
\* of s[i]; s[i] lands at 1 + the number of elements that must precede it.
SortRank(keys, i) ==
    1 + Cardinality({j \in 1..Len(keys) :
                        keys[j] < keys[i] \/ (keys[j] = keys[i] /\ j < i)})

UnstableRank(keys, i) ==
    1 + Cardinality({j \in 1..Len(keys) :
                        keys[j] < keys[i] \/ (keys[j] = keys[i] /\ j > i)})

sorted(s, keys) ==
    [r \in 1..Len(s) |-> s[CHOOSE i \in 1..Len(s) : SortRank(keys, i) = r]]

\* ------------------------------------------------------------ scheduler.py
\* Task.__init__: arrival_time = time.time(), remaining_time = size.
Task(task_id, size, now) ==
    [task_id |-> task_id, size |-> size, arrival_time |-> now,
     remaining_time |-> size]

\* TaskScheduler.add_task
add_task(ts, task_id, size, now) == Append(ts, Task(task_id, size, now))

Entry(task_id, size, alg, remaining) ==
    [task_id |-> task_id, size |-> size, algorithm |-> alg,
     remaining |-> remaining]

\* TaskScheduler._schedule_fcfs: sorted by arrival_time.
schedule_fcfs_by_size(ts) ==
    LET st == sorted(ts, [i \in 1..Len(ts) |-> ts[i].size])
    IN  [i \in 1..Len(st) |-> Entry(st[i].task_id, st[i].size, "FCFS", NoValue)]

schedule_fcfs(ts) ==
    LET st == sorted(ts, [i \in 1..Len(ts) |-> ts[i].arrival_time])
    IN  [i \in 1..Len(st) |-> Entry(st[i].task_id, st[i].size, "FCFS", NoValue)]

\* TaskScheduler._schedule_sjf: sorted by size.
schedule_sjf_unstable(ts) ==
    LET keys == [i \in 1..Len(ts) |-> ts[i].size]
        st == [r \in 1..Len(ts) |->
                  ts[CHOOSE i \in 1..Len(ts) : UnstableRank(keys, i) = r]]
    IN  [i \in 1..Len(st) |-> Entry(st[i].task_id, st[i].size, "SJF", NoValue)]

schedule_sjf(ts) ==
    LET st == sorted(ts, [i \in 1..Len(ts) |-> ts[i].size])
    IN  [i \in 1..Len(st) |-> Entry(st[i].task_id, st[i].size, "SJF", NoValue)]

\* TaskScheduler._schedule_round_robin, the while loop.  ready_queue holds
\* indices into ts: deque(self.tasks.copy()) is a shallow copy, so the loop
\* decrements remaining_time of the scheduler's own Task objects.  The
\* millisecond round trip (x / 1000.0 then * 1000) returns x for the sizes
\* and quanta used here, so the arithmetic is done on integers.
RECURSIVE rr_loop(_, _, _, _)
rr_loop(ready_queue, ts, q, out) ==
    IF ready_queue = <<>> THEN [tasks |-> ts, out |-> out]
    ELSE LET i == Head(ready_queue)
             task == ts[i]
             execution_time == Min(q, task.remaining_time)
             entry == Entry(task.task_id, execution_time, "Round Robin",
                            task.remaining_time)
             left == task.remaining_time - execution_time
             ts2 == [ts EXCEPT ![i].remaining_time = left]
             rq2 == IF left > 0 THEN Append(Tail(ready_queue), i)
                    ELSE Tail(ready_queue)
         IN  rr_loop(rq2, ts2, q, Append(out, entry))

\* The while loop never ends when the quantum is negative and a task is
\* registered: execution_time = min(quantum, remaining_time) is then the
\* negative quantum, every slice adds to remaining_time, and every task is put
\* back on ready_queue.  With no task the loop body never runs.
rr_diverges(ts, q) == q < 0 /\ ts # <<>>

schedule_round_robin(ts, q) ==
    rr_loop([i \in 1..Len(ts) |-> i], ts, q, <<>>)

\* TaskScheduler.schedule_tasks: [error, out, tasks, hung]; error is "" on
\* return, hung is TRUE when the call neither returns nor raises.
schedule_tasks(alg, q, ts) ==
    IF alg = "FCFS"
    THEN [error |-> "", out |-> schedule_fcfs(ts), tasks |-> ts, hung |-> FALSE]
    ELSE IF alg = "SJF"
    THEN [error |-> "", out |-> schedule_sjf(ts), tasks |-> ts, hung |-> FALSE]
    ELSE IF alg = "Round Robin" THEN
        IF q = 0 THEN [error |-> "Time quantum must be specified",
                       out |-> <<>>, tasks |-> ts, hung |-> FALSE]
        ELSE IF rr_diverges(ts, q)
        THEN [error |-> "", out |-> <<>>, tasks |-> ts, hung |-> TRUE]
        ELSE LET r == schedule_round_robin(ts, q)
             IN  [error |-> "", out |-> r.out, tasks |-> r.tasks, hung |-> FALSE]
    ELSE [error |-> "Unknown scheduling algorithm", out |-> <<>>, tasks |-> ts,
          hung |-> FALSE]

\* The task ids of a schedule, in order.
TaskIds(entries) == [i \in 1..Len(entries) |-> entries[i].task_id]

\* ----------------------------------------------------------- encryption.py
\* The input domains of one run.  The code never branches on the value of a
\* plaintext byte, so one plaintext per length is taken, its bytes pairwise
\* distinct so that a lost, repeated or misplaced chunk shows in the output.
Message == [i \in 1..MaxLen |-> 64 + i]
Plaintexts == {SubSeq(Message, 1, n) : n \in 0..MaxLen}
EncryptPasswords == {1}
Passwords == {1, 2}
Salts == {1}
IVs == {0, 1}
DecryptQuanta == {0} \cup {BlockSize * q : q \in 1..MaxQuantum}

\* A .enc file: header_bytes bytes of header (the salt, then chunk_count on 4
\* bytes), then the frames.
SaltSize == 16
HeaderSize == SaltSize + 4
NoFile == [header_bytes |-> 0, salt |-> 0 - 1, chunk_count |-> 0 - 1,
           frames |-> <<>>]
NoOutput == <<0 - 1>>

\* FileEncryption._derive_key: PBKDF2-HMAC-SHA256, a deterministic function of
\* (password, salt), modelled as collision-free on the model's domain.
derive_key(pw, s) == (pw * 64 + s * 16) % 256

\* secrets.token_bytes(16) for an IV: 16 bytes, here all equal to v.
IVBytes(v) == [j \in 1..BlockSize |-> v]

\* AES-CBC with `k` and `iv` on whole blocks: a keyed, IV-dependent bijection
\* on byte strings whose length is a multiple of the block size.
cbc_encrypt(k, iv, m) ==
    [j \in 1..Len(m) |-> (m[j] + k + iv[((j - 1) % BlockSize) + 1] + j) % 256]

cbc_decrypt(k, iv, c) ==
    [j \in 1..Len(c) |-> (c[j] - k - iv[((j - 1) % BlockSize) + 1] - j) % 256]

\* A padding that adds nothing to a chunk of whole blocks.
padding_length_none_when_aligned(n) == (BlockSize - (n % BlockSize)) % BlockSize

\* FileEncryption._encrypt_chunk with the IV drawn by line 31.
padding_length_of(n) == BlockSize - (n % BlockSize)

encrypt_chunk(chunk_data, k, iv) ==
    LET padding_length == padding_length_of(Len(chunk_data))
        padded_data == chunk_data \o [j \in 1..padding_length |-> padding_length]
    IN  iv \o cbc_encrypt(k, iv, padded_data)

\* FileEncryption._decrypt_chunk: [ok, data]; ok = FALSE when it raises
\* (an IV that is not 16 bytes, a ciphertext that is not whole blocks, or
\* decrypted_data[-1] on empty data).
unpad(decrypted_data) ==
    LET padding_length == decrypted_data[Len(decrypted_data)]
        keep == IF padding_length = 0 THEN 0       \* data[:-0] is data[:0]
                ELSE IF padding_length >= Len(decrypted_data) THEN 0
                ELSE Len(decrypted_data) - padding_length
    IN  SubSeq(decrypted_data, 1, keep)

decrypt_chunk(chunk_data, k) ==
    LET iv == SubSeq(chunk_data, 1, Min(BlockSize, Len(chunk_data)))
        encrypted_data == SubSeq(chunk_data, BlockSize + 1, Len(chunk_data))
    IN  IF Len(iv) # BlockSize THEN [ok |-> FALSE, data |-> <<>>]
        ELSE IF Len(encrypted_data) % BlockSize # 0
             THEN [ok |-> FALSE, data |-> <<>>]
        ELSE IF encrypted_data = <<>> THEN [ok |-> FALSE, data |-> <<>>]
        ELSE [ok |-> TRUE, data |-> unpad(cbc_decrypt(k, iv, encrypted_data))]

\* The read loop of encrypt_file_parallel (lines 116-124): f.read(chunk_size)
\* until it returns nothing.
split_keeping_empty(data, size) ==
    LET n == IF data = <<>> THEN 1 ELSE (Len(data) + size - 1) \div size
    IN  [i \in 1..n |->
            SubSeq(data, (i - 1) * size + 1, Min(i * size, Len(data)))]

\* A read loop that keeps whole chunks only.
split_whole_chunks(data, size) ==
    [i \in 1..(Len(data) \div size) |->
        SubSeq(data, (i - 1) * size + 1, i * size)]

RECURSIVE split(_, _)
split(data, size) ==
    IF data = <<>> THEN <<>>
    ELSE <<SubSeq(data, 1, Min(size, Len(data)))>>
         \o split(SubSeq(data, Min(size, Len(data)) + 1, Len(data)), size)

\* Line 219, int.from_bytes(f.read(4), 'big'): the count of a whole header;
\* of a header cut inside the count, the value of the bytes that are there,
\* which are the zero high-order bytes of a count below 65536.
read_chunk_count(file) ==
    IF file.header_bytes >= HeaderSize THEN file.chunk_count ELSE 0

\* The read loop of decrypt_file_parallel (lines 221-226) on a file holding
\* `frames` length-prefixed frames: a read past the end of the file returns
\* nothing, so a missing frame is read as an empty chunk.
parse_chunks(file) ==
    [i \in 1..read_chunk_count(file) |->
        IF i <= Len(file.frames) THEN file.frames[i] ELSE <<>>]

\* The loop `for chunk_id, chunk_data in chunks: scheduler.add_task(...)`.
\* Task k is registered at time now + k.
RECURSIVE register(_, _, _, _)
register(ts, cs, k, now) ==
    IF k > Len(cs) THEN ts
    ELSE register(add_task(ts, k - 1, Len(cs[k]), now + k), cs, k + 1, now)

\* A queue item: the tuple (chunk_id, chunk_data, time), or None.
QTask(chunk_id, chunk_data) == [chunk_id |-> chunk_id, chunk_data |-> chunk_data]
None == [chunk_id |-> 0 - 1, chunk_data |-> <<>>]

\* A result dict.
Success(chunk_id, data, worker_id, actual_start, end_time) ==
    [chunk_id |-> chunk_id, data |-> data, worker_id |-> worker_id,
     start_time |-> actual_start, end_time |-> end_time, success |-> TRUE]
Failure(chunk_id, worker_id) ==
    [chunk_id |-> chunk_id, data |-> <<>>, worker_id |-> worker_id,
     success |-> FALSE]

\* The ids the write loop writes (`for i in range(len(chunks)): if i in
\* results`), in the order it writes them.
RECURSIVE write_order(_, _, _)
write_order(i, n, res) ==
    IF i >= n THEN <<>>
    ELSE (IF i \in DOMAIN res THEN <<i>> ELSE <<>>) \o write_order(i + 1, n, res)

RECURSIVE Concat(_)
Concat(ss) == IF ss = <<>> THEN <<>> ELSE Head(ss) \o Concat(Tail(ss))

WorkerIds == 0..(max_workers - 1)

\* The state of a run that has not begun.
RunIdle ==
    /\ operation = "none" /\ plaintext = <<>> /\ password = 0 /\ password2 = 0
    /\ chunk_size = 0 /\ max_workers = 0 /\ salt = 0 /\ key = 0 /\ error = ""
    /\ chunks = <<>> /\ pc = "none" /\ loop_i = 0
    /\ task_queue = <<>> /\ result_queue = <<>> /\ results = <<>>
    /\ gantt_data = <<>> /\ completed_chunks = 0
    /\ start_time = 0 /\ progress = <<>> /\ cancel_requested = FALSE
    /\ wstate = <<>> /\ wtask = <<>> /\ wstart = <<>>
    /\ enc_file = NoFile /\ dec_file = NoOutput /\ in_file = NoFile
    /\ dispatched = <<>> /\ taken = <<>> /\ written_ids = <<>>
    /\ failed_ids = <<>>

\* TaskScheduler.__init__ as app.py calls it: time_quantum is None unless the
\* algorithm is Round Robin.
NewScheduler(alg, q) ==
    /\ algorithm = alg /\ time_quantum = q
    /\ tasks = <<>> /\ clock = 0 /\ scheduled_tasks = <<>>
    /\ sched_error = "" /\ calls = 0 /\ sched_input = <<>>
    /\ sched_hung = FALSE

\* --------------------------------------------------------------- SchedSpec
SInit ==
    /\ \E alg \in Algorithms :
       \E q \in (IF alg = "Round Robin" THEN Quanta ELSE {0}) :
          NewScheduler(alg, q)
    /\ RunIdle

\* scheduler.add_task(id, size) with ids 0, 1, ... in registration order.
\* time.time() has or has not advanced since the previous registration;
\* arrival_time is read by _schedule_fcfs alone, so the clock is left to
\* advance only under FCFS.
SAddTask ==
    /\ ~sched_hung
    /\ Len(tasks) < MaxTasks
    /\ \E size \in Sizes :
       \E tick \in (IF algorithm = "FCFS" /\ clock < MaxClock THEN {0, 1}
                    ELSE {0}) :
          /\ clock' = clock + tick
          /\ tasks' = add_task(tasks, Len(tasks), size, clock')
    /\ UNCHANGED <<algorithm, time_quantum, scheduled_tasks, sched_error,
                   calls, sched_input, sched_hung, run_vars>>

\* scheduler.schedule_tasks()
SSchedule ==
    /\ ~sched_hung
    /\ calls < MaxCalls
    /\ LET r == schedule_tasks(algorithm, time_quantum, tasks)
       IN  /\ scheduled_tasks' = r.out
           /\ sched_error' = r.error
           /\ tasks' = r.tasks
           /\ sched_hung' = r.hung
    /\ sched_input' = tasks
    /\ calls' = calls + 1
    /\ UNCHANGED <<algorithm, time_quantum, clock, run_vars>>

\* scheduler.reset(), by a caller that drops the schedule it held.
SReset ==
    /\ ~sched_hung
    /\ tasks # <<>>
    /\ tasks' = <<>>
    /\ scheduled_tasks' = <<>>
    /\ sched_error' = ""
    /\ sched_input' = <<>>
    /\ UNCHANGED <<algorithm, time_quantum, clock, calls, sched_hung, run_vars>>

SNext == SAddTask \/ SSchedule \/ SReset

SchedSpec == SInit /\ [][SNext]_vars

\* -------------------------------------------------------------------- Spec
\* The files decrypt_file_parallel may be handed: the file the encrypt run
\* wrote, or that file cut short by half a block.
Truncated(file) ==
    LET n == Len(file.frames)
        last == file.frames[n]
    IN  [file EXCEPT !.frames[n] = SubSeq(last, 1, Len(last) - 8)]

\* That file with its last frame cut down to half an IV.
ShortFrame(file) ==
    LET n == Len(file.frames)
    IN  [file EXCEPT !.frames[n] = SubSeq(file.frames[n], 1, 8)]

\* That file cut two bytes before the end of its header.
ShortHeader(file) ==
    [file EXCEPT !.header_bytes = HeaderSize - 2, !.frames = <<>>]

\* A file decrypt_file_parallel cannot read as salt, chunk_count and frames
\* of an IV and ciphertext each.
Malformed(file) ==
    \/ file.header_bytes < HeaderSize
    \/ \E i \in 1..Len(file.frames) : Len(file.frames[i]) < BlockSize

\* The (file, password) pairs of the decrypt run: the written file with the
\* password of the encrypt run or with another one, or a damaged file.
DecryptInputs(file, pw) ==
    {<<file, q>> : q \in Passwords}
    \cup {<<ShortHeader(file), pw>>}
    \cup (IF file.frames = <<>> THEN {}
          ELSE {<<Truncated(file), pw>>, <<ShortFrame(file), pw>>})

InitWith(quanta) ==
    /\ \E alg \in Algorithms :
       \E q \in (IF alg = "Round Robin" THEN quanta ELSE {0}) :
          NewScheduler(alg, q)
    /\ operation = "encrypt"
    /\ plaintext \in Plaintexts
    /\ password \in EncryptPasswords
    /\ password2 = 0
    /\ chunk_size \in 1..MaxChunk
    /\ max_workers \in 0..MaxWorkers
    /\ salt = 0 /\ key = 0 /\ error = ""
    /\ chunks = <<>> /\ pc = "begin" /\ loop_i = 0
    /\ task_queue = <<>> /\ result_queue = <<>> /\ results = <<>>
    /\ gantt_data = <<>> /\ completed_chunks = 0
    /\ start_time = 0 /\ progress = <<>> /\ cancel_requested = FALSE
    /\ wstate = [w \in WorkerIds |-> "unstarted"]
    /\ wtask = [w \in WorkerIds |-> None]
    /\ wstart = [w \in WorkerIds |-> 0]
    /\ enc_file = NoFile /\ dec_file = NoOutput /\ in_file = NoFile
    /\ dispatched = <<>> /\ taken = <<>> /\ written_ids = <<>>
    /\ failed_ids = <<>>

Init == InitWith(0..MaxQuantum)

config_vars == <<algorithm, time_quantum, plaintext, password, chunk_size,
                 max_workers>>
worker_vars == <<wstate, wtask, wstart>>
ui_vars == <<progress, cancel_requested>>
history_vars == <<dispatched, taken, written_ids, failed_ids>>
file_vars == <<enc_file, dec_file, in_file>>

\* encrypt_file_parallel, lines 111-136: salt, key, split, empty check,
\* registration of one task per chunk.
EncryptBegin ==
    /\ operation = "encrypt" /\ pc = "begin"
    /\ \E s \in Salts :
          /\ salt' = s
          /\ key' = derive_key(password, s)
    /\ chunks' = split(plaintext, chunk_size)
    /\ IF chunks' = <<>>
       THEN /\ pc' = "failed"
            /\ error' = "File is empty"
            /\ UNCHANGED <<tasks, clock>>
       ELSE /\ pc' = "start_workers"
            /\ tasks' = register(tasks, chunks', 1, clock)
            /\ clock' = clock + Len(chunks')
            /\ UNCHANGED error
    /\ UNCHANGED <<config_vars, scheduled_tasks, sched_error, calls,
                   sched_input, sched_hung, operation, password2, loop_i,
                   task_queue, result_queue, results, gantt_data,
                   completed_chunks, start_time, ui_vars, worker_vars,
                   file_vars, history_vars>>

\* decrypt_file_parallel, lines 210-235, with a scheduler made for this run
\* (app.py:162): salt, key, chunk count, chunks, registration.  The queues,
\* the threads and the locals are those of the new call.  The tasks of this
\* run are frames, of 2 * BlockSize bytes for the plaintexts taken here, and
\* DecryptQuanta are the quanta that slice them as 1..MaxQuantum slice the
\* chunks of the encrypt run.
\* The scheduler argument is new when `same_scheduler` is FALSE, and the
\* TaskScheduler of the encrypt run when it is TRUE: add_task (scheduler.py
\* 30-33) then appends to the tasks that scheduler holds.
FreshScheduler == {FALSE}
SameScheduler == {TRUE}

DecryptBeginOn(scheduler_choices) ==
    /\ operation = "encrypt" /\ pc = "done"
    /\ operation' = "decrypt"
    /\ \E inp \in DecryptInputs(enc_file, password) :
          /\ in_file' = inp[1]
          /\ password2' = inp[2]
          /\ key' = derive_key(inp[2], inp[1].salt)
          /\ chunks' = parse_chunks(inp[1])
    /\ \E same_scheduler \in scheduler_choices :
          IF same_scheduler
          THEN /\ tasks' = register(tasks, chunks', 1, clock)
               /\ UNCHANGED <<algorithm, time_quantum, scheduled_tasks,
                              sched_error, calls, sched_input, sched_hung>>
          ELSE /\ \E alg \in Algorithms :
                  \E q \in (IF alg = "Round Robin" THEN DecryptQuanta
                            ELSE {0}) :
                     algorithm' = alg /\ time_quantum' = q
               /\ tasks' = register(<<>>, chunks', 1, clock)
               /\ scheduled_tasks' = <<>> /\ sched_error' = "" /\ calls' = 0
               /\ sched_input' = <<>> /\ sched_hung' = FALSE
    /\ clock' = clock + Len(chunks')
    /\ pc' = "start_workers"
    /\ loop_i' = 0
    /\ task_queue' = <<>> /\ result_queue' = <<>> /\ results' = <<>>
    /\ gantt_data' = <<>> /\ completed_chunks' = 0
    /\ start_time' = 0 /\ progress' = <<>> /\ cancel_requested' = FALSE
    /\ wstate' = [w \in WorkerIds |-> "unstarted"]
    /\ wtask' = [w \in WorkerIds |-> None]
    /\ wstart' = [w \in WorkerIds |-> 0]
    /\ dispatched' = <<>> /\ taken' = <<>> /\ written_ids' = <<>>
    /\ failed_ids' = <<>>
    /\ UNCHANGED <<plaintext, password, chunk_size, max_workers, salt, error,
                   enc_file, dec_file>>

DecryptBegin == DecryptBeginOn(FreshScheduler)

\* Lines 138-146 / 237-245: start max_workers threads.
StartWorkers ==
    /\ pc = "start_workers"
    /\ wstate' = [w \in WorkerIds |-> "polling"]
    /\ pc' = "schedule"
    /\ UNCHANGED <<sched_vars, operation, plaintext, password, password2,
                   chunk_size, max_workers, salt, key, error, chunks, loop_i,
                   task_queue, result_queue, results, gantt_data,
                   completed_chunks, start_time, ui_vars, wtask, wstart,
                   file_vars, history_vars>>

\* Lines 149-153 / 248-252: scheduler.schedule_tasks(); a ValueError it
\* raises ends the call.
Schedule ==
    /\ pc = "schedule"
    /\ LET r == schedule_tasks(algorithm, time_quantum, tasks)
       IN  /\ sched_error' = r.error
           /\ scheduled_tasks' = r.out
           /\ tasks' = r.tasks
           /\ sched_hung' = r.hung
           /\ IF r.error # ""
              THEN pc' = "failed" /\ error' = r.error
              ELSE IF r.hung THEN pc' = "schedule_hung" /\ UNCHANGED error
              ELSE pc' = "dispatch" /\ UNCHANGED error
    /\ sched_input' = tasks
    /\ calls' = calls + 1
    /\ loop_i' = 0
    /\ gantt_data' = <<>>
    /\ start_time' = clock
    /\ completed_chunks' = 0
    /\ UNCHANGED <<config_vars, clock, operation, password2, salt, key,
                   chunks, task_queue, result_queue, results, ui_vars,
                   worker_vars, file_vars, history_vars>>

\* Lines 155-160 / 254-258: the dispatch loop, then results = {}.  A put
\* never blocks and nothing but the FIFO order of the queue depends on when
\* it happens, so the loop is taken as one step; chunks[chunk_id] raises
\* IndexError for an id that is no chunk of this run.
\* A dispatch loop that walks the schedule from its last entry.
queue_items_reversed(entries, cs) ==
    [i \in 1..Len(entries) |->
        QTask(entries[Len(entries) + 1 - i].task_id,
              cs[entries[Len(entries) + 1 - i].task_id + 1])]

queue_items(entries, cs) ==
    [i \in 1..Len(entries) |-> QTask(entries[i].task_id, cs[entries[i].task_id + 1])]

\* The entries the loop reaches before chunks[chunk_id] raises.
BeforeIndexError(entries, cs) ==
    LET bad == {i \in 1..Len(entries) : entries[i].task_id + 1 > Len(cs)}
    IN  IF bad = {} THEN entries
        ELSE SubSeq(entries, 1,
                    (CHOOSE i \in bad : \A j \in bad : i <= j) - 1)

Dispatch ==
    /\ pc = "dispatch"
    /\ LET reached == BeforeIndexError(scheduled_tasks, chunks)
           items == queue_items(reached, chunks)
       IN  /\ task_queue' = task_queue \o items
           /\ dispatched' =
                 dispatched \o [i \in 1..Len(items) |-> items[i].chunk_id]
           /\ IF reached # scheduled_tasks
              THEN /\ pc' = "failed"
                   /\ error' = "list index out of range"
              ELSE /\ pc' = "collect"
                   /\ UNCHANGED error
    /\ loop_i' = 0
    /\ results' = <<>>
    /\ UNCHANGED <<sched_vars, operation, plaintext, password, password2,
                   chunk_size, max_workers, salt, key, chunks, result_queue,
                   gantt_data, completed_chunks, start_time, ui_vars,
                   worker_vars, file_vars, taken, written_ids, failed_ids>>

\* A collecting loop that files each result under its arrival position.
store_by_arrival(res, chunk_id, data) ==
    [i \in (DOMAIN res) \cup {Cardinality(DOMAIN res)} |->
        IF i = Cardinality(DOMAIN res) THEN data ELSE res[i]]

\* results[chunk_id] = data
Store(res, chunk_id, data) ==
    [i \in (DOMAIN res) \cup {chunk_id} |->
        IF i = chunk_id THEN data ELSE res[i]]

GanttEntry(result) ==
    [chunk_id |-> result.chunk_id, worker |-> result.worker_id,
     start |-> result.start_time - start_time,
     end |-> result.end_time - start_time]

\* Lines 164-179 / 262-276: one iteration of the collecting loop
\* (result_queue.get() blocks while the queue is empty), or its exit.
Collect ==
    /\ pc = "collect"
    /\ IF loop_i < Len(chunks)
       THEN /\ result_queue # <<>>
            /\ LET result == Head(result_queue)
               IN  IF result.success
                   THEN /\ results' = Store(results, result.chunk_id, result.data)
                        /\ gantt_data' = Append(gantt_data, GanttEntry(result))
                        /\ completed_chunks' = completed_chunks + 1
                        /\ progress' = Append(progress,
                                              <<completed_chunks', Len(chunks)>>)
                        /\ UNCHANGED failed_ids
                   ELSE /\ failed_ids' = Append(failed_ids, result.chunk_id)
                        /\ UNCHANGED <<results, gantt_data, completed_chunks,
                                       progress>>
            /\ result_queue' = Tail(result_queue)
            /\ loop_i' = loop_i + 1
            /\ UNCHANGED pc
       ELSE /\ pc' = "shutdown"
            /\ UNCHANGED <<loop_i, result_queue, results, gantt_data,
                           completed_chunks, progress, failed_ids>>
    /\ UNCHANGED <<sched_vars, operation, plaintext, password, password2,
                   chunk_size, max_workers, salt, key, error, chunks,
                   task_queue, start_time, cancel_requested, worker_vars,
                   file_vars, dispatched, taken, written_ids>>

\* Lines 182-183 / 279-280: one task_queue.put(None) per started worker; the
\* puts never block and are taken as one step.
sentinels_one_short(n) == [i \in 1..(n - 1) |-> None]

\* A shutdown that puts two sentinels per worker.
sentinels_twice(n) == [i \in 1..(2 * n) |-> None]

sentinels(n) == [i \in 1..n |-> None]

Shutdown ==
    /\ pc = "shutdown"
    /\ task_queue' = task_queue \o sentinels(max_workers)
    /\ pc' = "join"
    /\ UNCHANGED <<sched_vars, operation, plaintext, password, password2,
                   chunk_size, max_workers, salt, key, error, chunks, loop_i,
                   result_queue, results, gantt_data, completed_chunks,
                   start_time, ui_vars, worker_vars, file_vars, history_vars>>

\* Lines 185-186 / 282-283: worker.join() for every worker.
\* A join loop that waits for the first worker only.
first_worker_joined == \A w \in WorkerIds : w > 0 \/ wstate[w] = "exited"

workers_joined == \A w \in WorkerIds : wstate[w] = "exited"

Join ==
    /\ pc = "join"
    /\ workers_joined
    /\ pc' = "write"
    /\ UNCHANGED <<sched_vars, operation, plaintext, password, password2,
                   chunk_size, max_workers, salt, key, error, chunks, loop_i,
                   task_queue, result_queue, results, gantt_data,
                   completed_chunks, start_time, ui_vars, worker_vars,
                   file_vars, history_vars>>

\* Lines 188-204: the .enc file is the salt, len(chunks), and one
\* length-prefixed frame per id found in results.
\* Lines 285-296: the decrypted file is the data of the ids found in results.
RECURSIVE Dedup(_, _)
Dedup(ids, seen) ==
    IF ids = <<>> THEN <<>>
    ELSE IF Head(ids) \in seen THEN Dedup(Tail(ids), seen)
    ELSE <<Head(ids)>> \o Dedup(Tail(ids), seen \cup {Head(ids)})

\* `for i in results`: the ids in the order they were first stored.
WriteOrderAsStored ==
    Dedup([k \in 1..Len(gantt_data) |-> gantt_data[k].chunk_id], {})

WriteOrder == write_order(0, Len(chunks), results)

Write ==
    /\ pc = "write"
    /\ LET order == WriteOrder
           parts == [k \in 1..Len(order) |-> results[order[k]]]
       IN  /\ written_ids' = order
           /\ IF operation = "encrypt"
              THEN /\ enc_file' = [header_bytes |-> HeaderSize, salt |-> salt,
                                   chunk_count |-> Len(chunks),
                                   frames |-> parts]
                   /\ UNCHANGED dec_file
              ELSE /\ dec_file' = Concat(parts)
                   /\ UNCHANGED enc_file
    /\ pc' = "done"
    /\ UNCHANGED <<sched_vars, operation, plaintext, password, password2,
                   chunk_size, max_workers, salt, key, error, chunks, loop_i,
                   task_queue, result_queue, results, gantt_data,
                   completed_chunks, start_time, ui_vars, worker_vars, in_file,
                   dispatched, taken, failed_ids>>

\* time.time() read by a worker (lines 71 and 80): the clock has advanced
\* since the last reading by one of `ticks`, and by at most MaxTicks since
\* the orchestrator read start_time.
NoTicks == {0}
Ticks == {0, 1}
Advance(ticks) == IF clock < start_time + MaxTicks THEN ticks ELSE NoTicks

\* _worker_process, lines 64-71: task_queue.get(); None ends the thread,
\* a task is unpacked and actual_start read.
WorkerTakeAt(w, ticks) ==
    /\ wstate[w] = "polling"
    /\ task_queue # <<>>
    /\ LET task == Head(task_queue)
       IN  IF task = None
           THEN /\ wstate' = [wstate EXCEPT ![w] = "exited"]
                /\ UNCHANGED <<wtask, wstart, clock, taken>>
           ELSE /\ wstate' = [wstate EXCEPT ![w] = "working"]
                /\ wtask' = [wtask EXCEPT ![w] = task]
                /\ \E t \in Advance(ticks) :
                      /\ clock' = clock + t
                      /\ wstart' = [wstart EXCEPT ![w] = clock']
                /\ taken' = Append(taken, task.chunk_id)
    /\ task_queue' = Tail(task_queue)
    /\ UNCHANGED <<sched_state_vars, operation, plaintext, password, password2,
                   chunk_size, max_workers, salt, key, error, chunks, pc,
                   loop_i, result_queue, results, gantt_data,
                   completed_chunks, start_time, ui_vars, file_vars,
                   dispatched, written_ids, failed_ids>>

WorkerTake(w) == WorkerTakeAt(w, NoTicks)

\* _worker_process, lines 64 and 101-102: get(timeout=1) raises queue.Empty
\* and the loop goes round.
WorkerTimeout(w) ==
    /\ wstate[w] = "polling"
    /\ task_queue = <<>>
    /\ UNCHANGED vars

\* A worker that tags every result as worker 0's.
encrypt_result_untagged(task, k, iv, w, actual_start, end_time) ==
    Success(task.chunk_id, encrypt_chunk(task.chunk_data, k, iv), 0,
            actual_start, end_time)

\* The result dict a worker puts for `task` (lines 73-97).
encrypt_result(task, k, iv, w, actual_start, end_time) ==
    Success(task.chunk_id, encrypt_chunk(task.chunk_data, k, iv), w,
            actual_start, end_time)

\* A worker whose exception handler reports the chunk as done with no data.
decrypt_result_never_fails(task, k, w, actual_start, end_time) ==
    LET r == decrypt_chunk(task.chunk_data, k)
    IN  Success(task.chunk_id, IF r.ok THEN r.data ELSE <<>>, w,
                actual_start, end_time)

decrypt_result(task, k, w, actual_start, end_time) ==
    LET r == decrypt_chunk(task.chunk_data, k)
    IN  IF r.ok THEN Success(task.chunk_id, r.data, w, actual_start, end_time)
        ELSE Failure(task.chunk_id, w)

\* _worker_process, lines 73-99: process the chunk, read end_time and put the
\* result; the IV of an encrypted chunk is drawn from ivs.
WorkerFinishWith(w, ivs, ticks) ==
    /\ wstate[w] = "working"
    /\ \E t \in Advance(ticks) :
          /\ clock' = clock + t
          /\ IF operation = "encrypt"
             THEN \E v \in ivs :
                     result_queue' =
                         Append(result_queue,
                                encrypt_result(wtask[w], key, IVBytes(v), w,
                                               wstart[w], clock'))
             ELSE result_queue' =
                     Append(result_queue,
                            decrypt_result(wtask[w], key, w, wstart[w], clock'))
    /\ wstate' = [wstate EXCEPT ![w] = "polling"]
    /\ wtask' = [wtask EXCEPT ![w] = None]
    /\ UNCHANGED <<sched_state_vars, operation, plaintext, password, password2,
                   chunk_size, max_workers, salt, key, error, chunks, pc,
                   loop_i, task_queue, results, gantt_data, completed_chunks,
                   start_time, ui_vars, wstart, file_vars, history_vars>>

WorkerFinish(w) == WorkerFinishWith(w, IVs, NoTicks)

\* Spec: the readings of time.time() taken by the workers of a run coincide
\* with start_time; TimedSpec below lets the clock advance between them.
Next ==
    \/ EncryptBegin
    \/ DecryptBegin
    \/ StartWorkers
    \/ Schedule
    \/ Dispatch
    \/ Collect
    \/ Shutdown
    \/ Join
    \/ Write
    \/ \E w \in WorkerIds : WorkerTake(w)
    \/ \E w \in WorkerIds : WorkerTimeout(w)
    \/ \E w \in WorkerIds : WorkerFinish(w)

Spec == Init /\ [][Next]_vars

\* FairSpec: the orchestrator thread and every worker thread keep being
\* scheduled.  Whether a run terminates does not depend on the IVs drawn, so
\* one IV value is drawn here.
FairIVs == {1}

OrchestratorStep ==
    \/ EncryptBegin \/ DecryptBegin \/ StartWorkers \/ Schedule \/ Dispatch
    \/ Collect \/ Shutdown \/ Join \/ Write

FairNext ==
    \/ OrchestratorStep
    \/ \E w \in WorkerIds : WorkerTake(w)
    \/ \E w \in WorkerIds : WorkerTimeout(w)
    \/ \E w \in WorkerIds : WorkerFinishWith(w, FairIVs, NoTicks)

Fairness ==
    /\ WF_vars(OrchestratorStep)
    /\ \A w \in 0..(MaxWorkers - 1) :
          /\ WF_vars(w \in WorkerIds /\ WorkerTake(w))
          /\ WF_vars(w \in WorkerIds /\ WorkerFinishWith(w, FairIVs, NoTicks))

FairSpec == Init /\ [][FairNext]_vars /\ Fairness

\* TimedSpec: the runs of FairNext with the clock advancing between the
\* readings the workers take.
TimedNext ==
    \/ OrchestratorStep
    \/ \E w \in WorkerIds : WorkerTakeAt(w, Ticks)
    \/ \E w \in WorkerIds : WorkerTimeout(w)
    \/ \E w \in WorkerIds : WorkerFinishWith(w, FairIVs, Ticks)

TimedSpec == Init /\ [][TimedNext]_vars

\* CancelSpec: the runs of FairNext during which the user may ask for the run
\* to be cancelled, while results are still to be collected.  No statement of encrypt_file_parallel,
\* decrypt_file_parallel or _worker_process reads a cancellation request:
\* their signatures take no token and their loops test none.
RequestCancel ==
    /\ pc \in {"schedule", "dispatch", "collect"}
    /\ loop_i < Len(chunks)
    /\ ~cancel_requested
    /\ cancel_requested' = TRUE
    /\ UNCHANGED <<sched_vars, operation, plaintext, password, password2,
                   chunk_size, max_workers, salt, key, error, chunks, pc,
                   loop_i, task_queue, result_queue, results, gantt_data,
                   completed_chunks, start_time, progress, worker_vars,
                   file_vars, history_vars>>

CancelNext == FairNext \/ RequestCancel

CancelSpec == Init /\ [][CancelNext]_vars

\* ReuseSpec: the runs of FairNext in which decrypt_file_parallel is handed
\* the TaskScheduler the encrypt run used.  Its quantum is one of
\* DecryptQuanta, which slice the frames of the decrypt run.
ReuseInit == InitWith(DecryptQuanta)

ReuseNext ==
    \/ EncryptBegin \/ DecryptBeginOn(SameScheduler) \/ StartWorkers
    \/ Schedule \/ Dispatch \/ Collect \/ Shutdown \/ Join \/ Write
    \/ \E w \in WorkerIds : WorkerTake(w)
    \/ \E w \in WorkerIds : WorkerTimeout(w)
    \/ \E w \in WorkerIds : WorkerFinishWith(w, FairIVs, NoTicks)

ReuseSpec == ReuseInit /\ [][ReuseNext]_vars

\* ChunkSpec: _encrypt_chunk and _decrypt_chunk applied to chunks of
\* 0..MaxChunkLen bytes, lengths on both sides of one and two whole blocks.
ChunkBytes(n) == [j \in 1..n |-> 64 + (j % 32)]

ChunkInit == NewScheduler("FCFS", 0) /\ RunIdle

\* frame = self._encrypt_chunk(chunk_data, key), kept under id 0.
CEncryptChunk ==
    /\ \E n \in 0..MaxChunkLen : chunks' = <<ChunkBytes(n)>>
    /\ \E pw \in Passwords : \E s \in Salts :
          /\ password' = pw /\ salt' = s
          /\ key' = derive_key(pw, s)
    /\ \E v \in IVs :
          results' = Store(<<>>, 0, encrypt_chunk(chunks'[1], key', IVBytes(v)))
    /\ operation' = "encrypt"
    /\ pc' = "chunk"
    /\ password2' = 0
    /\ dec_file' = NoOutput
    /\ UNCHANGED <<sched_vars, plaintext, chunk_size, max_workers, error,
                   loop_i, task_queue, result_queue, gantt_data,
                   completed_chunks, start_time, ui_vars, worker_vars,
                   enc_file, in_file, history_vars>>

\* self._decrypt_chunk(frame, key), with the key of either password.
CDecryptChunk ==
    /\ pc = "chunk" /\ operation = "encrypt"
    /\ \E pw \in Passwords :
          /\ password2' = pw
          /\ LET r == decrypt_chunk(results[0], derive_key(pw, salt))
             IN  dec_file' = IF r.ok THEN r.data ELSE NoOutput
    /\ operation' = "decrypt"
    /\ UNCHANGED <<sched_vars, plaintext, password, chunk_size, max_workers,
                   salt, key, error, chunks, pc, loop_i, task_queue,
                   result_queue, results, gantt_data, completed_chunks,
                   start_time, ui_vars, worker_vars, enc_file, in_file,
                   history_vars>>

ChunkNext == CEncryptChunk \/ CDecryptChunk

ChunkSpec == ChunkInit /\ [][ChunkNext]_vars

\* ================================================================== claims
\* schedule_tasks has returned (not raised) a schedule for sched_input.
SchedReturned == calls > 0 /\ sched_error = "" /\ ~sched_hung

\* ids holds every task id of ts exactly once, and nothing else.
IsPermutationOfIds(ids, ts) ==
    /\ Len(ids) = Len(ts)
    /\ \A i \in 1..Len(ts) : Count(ids, ts[i].task_id) = 1

SizesOf(ts) == [i \in 1..Len(ts) |-> ts[i].size]

\* C3: schedule_tasks returns a sequence in which every registered task id
\* occurs exactly once, for FCFS, SJF and Round Robin with quantum > 0 and
\* any task sizes.
C3_SchedulePermutation ==
    SchedReturned => IsPermutationOfIds(TaskIds(scheduled_tasks), sched_input)

\* C9: under FCFS, with ids 0..N-1 registered in that order, schedule_tasks
\* returns the ids in the order 0, 1, ..., N-1, whatever the sizes.
C9_FcfsRegistrationOrder ==
    (algorithm = "FCFS" /\ calls > 0) =>
        /\ sched_error = ""
        /\ TaskIds(scheduled_tasks) = [i \in 1..Len(sched_input) |-> i - 1]

\* C9 witness: three tasks of strictly decreasing size, the first two with
\* the same arrival time, have been scheduled under FCFS.
C9_Witness ==
    /\ algorithm = "FCFS" /\ calls > 0 /\ Len(sched_input) = 3
    /\ sched_input[1].size > sched_input[2].size
    /\ sched_input[2].size > sched_input[3].size
    /\ sched_input[1].arrival_time = sched_input[2].arrival_time
    /\ sched_input[2].arrival_time < sched_input[3].arrival_time
    /\ Len(scheduled_tasks) = 3

\* C10: under SJF the schedule is the registered tasks by ascending size,
\* tasks of equal size in registration order; sizes [500,100,900] give
\* [1,0,2].
C10_SjfOrder ==
    (algorithm = "SJF" /\ calls > 0) =>
        /\ sched_error = ""
        /\ IsPermutationOfIds(TaskIds(scheduled_tasks), sched_input)
        /\ \A i \in 1..Len(scheduled_tasks) :
              scheduled_tasks[i].size =
                  sched_input[scheduled_tasks[i].task_id + 1].size
        /\ \A i, j \in 1..Len(scheduled_tasks) :
              i < j =>
                 \/ scheduled_tasks[i].size < scheduled_tasks[j].size
                 \/ /\ scheduled_tasks[i].size = scheduled_tasks[j].size
                    /\ scheduled_tasks[i].task_id < scheduled_tasks[j].task_id
        /\ (SizesOf(sched_input) = <<500, 100, 900>>
               => TaskIds(scheduled_tasks) = <<1, 0, 2>>)

\* C10 witness: sizes [500,100,900] have been scheduled under SJF.
C10_Witness ==
    /\ algorithm = "SJF" /\ calls > 0
    /\ SizesOf(sched_input) = <<500, 100, 900>>
    /\ TaskIds(scheduled_tasks) = <<1, 0, 2>>

\* The ids 0..n-1 in ascending order.
AllIds(n) == [i \in 1..n |-> i - 1]

\* The current run has returned: its output file is written.
RunReturned == pc = "done"

\* The decrypt run has returned, and it was given the file the encrypt run
\* wrote and the password of the encrypt run.
RoundTripDone ==
    /\ operation = "decrypt" /\ pc = "done"
    /\ in_file = enc_file /\ password2 = password

\* C1: decrypt_file_parallel on the file written by encrypt_file_parallel,
\* with the same password, writes exactly the original plaintext, for every
\* algorithm, worker count and interleaving.
C1_RoundTrip == RoundTripDone => dec_file = plaintext

\* C2: in one run every chunk id 0..chunk_count-1 is put on the task queue
\* exactly once and taken by a worker exactly once, Round Robin with a chunk
\* larger than the quantum included.
C2_EachChunkOnce ==
    /\ pc \in {"collect", "shutdown", "join", "write", "done"} =>
          \A id \in 0..(Len(chunks) - 1) : Count(dispatched, id) = 1
    /\ pc \in {"write", "done"} =>
          \A id \in 0..(Len(chunks) - 1) : Count(taken, id) = 1

\* C4: if any collected result is a failure the run ends in failure and
\* writes no output file: no run returns with a failed chunk left out.
C4_FailureFailsRun == RunReturned => failed_ids = <<>>

\* C5: a written output holds the bytes of every chunk id 0..chunk_count-1,
\* and an encrypted file holds as many frames as its header's chunk_count.
C5_OutputComplete ==
    RunReturned =>
        /\ written_ids = AllIds(Len(chunks))
        /\ operation = "encrypt" =>
              Len(enc_file.frames) = enc_file.chunk_count

\* C6: the chunks written to the output are in strictly ascending chunk-id
\* order, whatever the dispatch order and the arrival order of the results.
C6_AscendingWrite ==
    RunReturned =>
        /\ \A i, j \in 1..Len(written_ids) :
              i < j => written_ids[i] < written_ids[j]
        /\ LET parts == [k \in 1..Len(written_ids) |-> results[written_ids[k]]]
           IN  IF operation = "encrypt" THEN enc_file.frames = parts
               ELSE dec_file = Concat(parts)

\* C6 witness: a run has written two or more chunks whose results arrived in
\* descending id order after being dispatched in descending id order.
C6_Witness ==
    /\ RunReturned
    /\ Len(written_ids) >= 2 /\ Len(gantt_data) >= 2 /\ Len(dispatched) >= 2
    /\ gantt_data[1].chunk_id > gantt_data[2].chunk_id
    /\ dispatched[1] > dispatched[2]

\* C7: an unknown algorithm, or Round Robin with no quantum, is detected
\* before any worker thread is started and before any chunk is processed.
C7_ConfigErrorBeforeWorkers ==
    (pc = "failed" /\ sched_error # "") =>
        /\ \A w \in WorkerIds : wstate[w] = "unstarted"
        /\ taken = <<>>

\* A run with W >= 1 workers whose input passed the read step and whose
\* algorithm is valid is about to start its workers.
ValidRunStarted ==
    /\ pc = "start_workers" /\ max_workers >= 1
    /\ algorithm \in {"FCFS", "SJF", "Round Robin"}
    /\ algorithm = "Round Robin" => time_quantum > 0

\* The call has returned after receiving chunk_count results, with every
\* worker exited on a shutdown signal.
RunTerminated ==
    /\ pc = "done" /\ loop_i = Len(chunks)
    /\ \A w \in WorkerIds : wstate[w] = "exited"

\* C8: for W >= 1, a non-empty input and a valid algorithm, every run
\* terminates under fair thread scheduling: chunk_count results are
\* received, every worker takes a shutdown signal and exits, and the call
\* returns.
C8_Terminates == ValidRunStarted ~> RunTerminated

\* C8 witness: a Round Robin run with two workers and more queue entries
\* than chunks has terminated.
C8_Witness ==
    /\ RunTerminated /\ max_workers = 2 /\ algorithm = "Round Robin"
    /\ Len(dispatched) > Len(chunks)

\* The (task id, consumed, remaining) triples of a schedule.
Slices(entries) ==
    [i \in 1..Len(entries) |->
        <<entries[i].task_id, entries[i].size, entries[i].remaining>>]

\* No task of ts has been sliced yet.
FreshTasks(ts) == \A i \in 1..Len(ts) : ts[i].remaining_time = ts[i].size

\* What the first k entries consume of task id.
RECURSIVE Consumed(_, _, _)
Consumed(entries, id, k) ==
    IF k = 0 THEN 0
    ELSE Consumed(entries, id, k - 1)
         + (IF entries[k].task_id = id THEN entries[k].size ELSE 0)

\* C11: with Round Robin, schedule_tasks raises an error whenever the quantum
\* is not greater than 0 (missing, zero or negative): it returns no schedule
\* and does not loop forever.
C11_NonPositiveQuantumFails ==
    (algorithm = "Round Robin" /\ time_quantum <= 0 /\ calls > 0) =>
        /\ sched_error # ""
        /\ ~sched_hung
        /\ scheduled_tasks = <<>>

\* C12: with Round Robin the 'remaining' of every slice is what is left of
\* the task after that slice; quantum 200 and sizes [300,500] give
\* (0,200,100), (1,200,300), (0,100,0), (1,200,100), (1,100,0).
C12_RemainingAfterSlice ==
    (algorithm = "Round Robin" /\ time_quantum > 0 /\ SchedReturned
     /\ FreshTasks(sched_input)) =>
        /\ \A k \in 1..Len(scheduled_tasks) :
              LET id == scheduled_tasks[k].task_id
              IN  scheduled_tasks[k].remaining =
                      sched_input[id + 1].size - Consumed(scheduled_tasks, id, k)
        /\ (time_quantum = 200 /\ SizesOf(sched_input) = <<300, 500>>) =>
              Slices(scheduled_tasks) =
                  << <<0, 200, 100>>, <<1, 200, 300>>, <<0, 100, 0>>,
                     <<1, 200, 100>>, <<1, 100, 0>> >>

\* ids with every id kept at its last position only.
CollapsedOrder(ids) ==
    LET keep == {i \in 1..Len(ids) : \A j \in (i + 1)..Len(ids) : ids[j] # ids[i]}
    IN  [r \in 1..Cardinality(keep) |->
            ids[CHOOSE i \in keep : Cardinality({j \in keep : j < i}) = r - 1]]

\* The dispatch loop of the current run is over.
Dispatched == pc \in {"collect", "shutdown", "join", "write", "done"}

\* C13: with Round Robin the ids put on the task queue are one per task, in
\* the order of the tasks' final slices in the schedule.
C13_CollapsedDispatch ==
    (algorithm = "Round Robin" /\ Dispatched) =>
        /\ dispatched = CollapsedOrder(TaskIds(scheduled_tasks))
        /\ \A id \in 0..(Len(chunks) - 1) : Count(dispatched, id) = 1

\* C14: encrypt_file_parallel on a zero-length input fails with "File is
\* empty" with no task registered, no worker started, nothing queued and no
\* output file written.
C14_EmptyInputFailsFirst ==
    (operation = "encrypt" /\ plaintext = <<>> /\ pc # "begin") =>
        /\ pc = "failed" /\ error = "File is empty"
        /\ tasks = <<>> /\ task_queue = <<>>
        /\ \A w \in WorkerIds : wstate[w] = "unstarted"
        /\ enc_file = NoFile /\ dec_file = NoOutput

\* C14 witness: the run on an empty file, set up with two workers, has ended.
C14_Witness ==
    /\ operation = "encrypt" /\ plaintext = <<>> /\ pc = "failed"
    /\ error = "File is empty" /\ max_workers = 2

\* The bytes _decrypt_chunk gets from the cipher for a frame, before it
\* removes the padding.
decrypted_data_of(chunk_data, k) ==
    cbc_decrypt(k, SubSeq(chunk_data, 1, BlockSize),
                SubSeq(chunk_data, BlockSize + 1, Len(chunk_data)))

\* PKCS#7: the last byte p is in 1..16, at most the length, and the last
\* p bytes all equal p.
PaddingValid(d) ==
    /\ d # <<>>
    /\ LET p == d[Len(d)]
       IN  /\ p >= 1 /\ p <= BlockSize /\ p <= Len(d)
           /\ \A j \in (Len(d) - p + 1)..Len(d) : d[j] = p

\* C15: a chunk whose decrypted bytes do not end in valid padding is never a
\* successful result of a decrypt run: removing its padding fails, a wrong
\* password included.
C15_PaddingValidated ==
    operation = "decrypt" =>
        \A id \in DOMAIN results :
            PaddingValid(decrypted_data_of(chunks[id + 1], key))

\* C16: decrypt_file_parallel on a malformed file (a header cut short, or a
\* frame shorter than an IV) fails while parsing: no worker is started and no
\* output file is written.
C16_MalformedInputRejected ==
    (operation = "decrypt" /\ Malformed(in_file)) =>
        /\ \A w \in WorkerIds : wstate[w] = "unstarted"
        /\ pc # "done"
        /\ dec_file = NoOutput

\* C17: the Gantt sequence of a run that returns has exactly chunk_count
\* entries, one for every chunk id.
C17_GanttOnePerChunk ==
    RunReturned =>
        /\ Len(gantt_data) = Len(chunks)
        /\ \A id \in 0..(Len(chunks) - 1) :
              Cardinality({k \in 1..Len(gantt_data) :
                              gantt_data[k].chunk_id = id}) = 1

\* C18: every Gantt entry has the id of a started worker, in
\* [0, worker_count), a start offset >= 0 and a start before its end.
C18_GanttWellFormed ==
    \A k \in 1..Len(gantt_data) :
        /\ gantt_data[k].worker \in WorkerIds
        /\ wstate[gantt_data[k].worker] # "unstarted"
        /\ gantt_data[k].start >= 0
        /\ gantt_data[k].start < gantt_data[k].end

\* C19: the progress callback is called once per successful result with
\* completed / chunk_count; the values reported increase strictly, lie in
\* [0,1], and 1 is reported exactly when every chunk has succeeded.
C19_Progress ==
    (Dispatched /\ chunks # <<>>) =>
        /\ Len(progress) = Len(gantt_data)
        /\ \A k \in 1..Len(progress) :
              /\ progress[k] = <<k, Len(chunks)>>
              /\ 0 <= progress[k][1] /\ progress[k][1] <= progress[k][2]
        /\ \A k \in 1..(Len(progress) - 1) :
              progress[k][1] * progress[k + 1][2]
                  < progress[k + 1][1] * progress[k][2]
        /\ (\E k \in 1..Len(progress) : progress[k][1] = progress[k][2])
              <=> (DOMAIN results = 0..(Len(chunks) - 1))

\* C20: a run asked to cancel while results are still to be collected ends
\* as cancelled: it does not return with an output file written.
C20_CancelledRunWritesNothing == cancel_requested => pc # "done"

\* C21: an exception raised while a worker processes a chunk becomes a
\* failure result for that chunk id, put by that worker; the worker goes back
\* to polling the task queue instead of exiting, and the step changes no other
\* worker's state or task.
C21_WorkerSurvivesFailure ==
    [][\A w \in WorkerIds :
          (wstate[w] = "working" /\ wstate'[w] # "working") =>
             /\ wstate'[w] = "polling"
             /\ \A v \in WorkerIds \ {w} :
                   wstate'[v] = wstate[v] /\ wtask'[v] = wtask[v]
             /\ Len(result_queue') = Len(result_queue) + 1
             /\ LET r == result_queue'[Len(result_queue')]
                IN  /\ r.chunk_id = wtask[w].chunk_id
                    /\ r.worker_id = w
                    /\ (operation = "decrypt"
                        /\ ~decrypt_chunk(wtask[w].chunk_data, key).ok)
                          => ~r.success]_vars

\* A worker whose failure result is still queued is processing a later task,
\* next to a second worker.
C21_Witness ==
    /\ max_workers = 2
    /\ \E i \in 1..Len(result_queue) :
          /\ ~result_queue[i].success
          /\ wstate[result_queue[i].worker_id] = "working"
          /\ wtask[result_queue[i].worker_id].chunk_id # result_queue[i].chunk_id

\* C22: the orchestrator writes the output file only after every worker
\* thread it started has terminated.
C22_WriteAfterWorkersExit ==
    pc \in {"write", "done"} => \A w \in WorkerIds : wstate[w] = "exited"

\* The decrypt run of two workers has written its output.
C22_Witness ==
    /\ operation = "decrypt" /\ pc = "done" /\ max_workers = 2
    /\ dec_file # NoOutput

\* s is an initial segment of t.
IsPrefix(s, t) ==
    /\ Len(s) <= Len(t)
    /\ \A i \in 1..Len(s) : s[i] = t[i]

\* C23: the ids put on the task queue are, in order, the task ids of the
\* schedule schedule_tasks returned, and the k-th task taken by any worker is
\* the k-th entry of that schedule.
C23_FifoDispatch ==
    /\ Dispatched => dispatched = TaskIds(scheduled_tasks)
    /\ SchedReturned => IsPrefix(taken, TaskIds(scheduled_tasks))

\* Shortest Job First put chunk 1 before chunk 0, and the workers took them
\* in that order.
C23_Witness ==
    /\ algorithm = "SJF" /\ max_workers = 2
    /\ TaskIds(scheduled_tasks) = <<1, 0>>
    /\ taken = <<1, 0>>

\* The sentinels of the current run have been put on the task queue.
SentinelsSent == pc \in {"join", "write", "done"}

Exited == {w \in WorkerIds : wstate[w] = "exited"}

QueuedSentinels == {i \in 1..Len(task_queue) : task_queue[i] = None}

\* C24: exactly one sentinel per worker is put on the task queue, after all
\* chunk tasks; a worker exits on its first sentinel and takes no second one;
\* no worker exits while a chunk task is still queued; the task queue is empty
\* once all workers have exited.
C24_ShutdownDrains ==
    /\ \A i \in QueuedSentinels :
          \A j \in (i + 1)..Len(task_queue) : task_queue[j] = None
    /\ IF SentinelsSent
       THEN Cardinality(QueuedSentinels) + Cardinality(Exited) = max_workers
       ELSE QueuedSentinels = {} /\ Exited = {}
    /\ Exited # {} => QueuedSentinels = 1..Len(task_queue)
    /\ (SentinelsSent /\ Exited = WorkerIds) => task_queue = <<>>

\* Two workers have exited after taking more tasks than the run has chunks.
C24_Witness ==
    /\ pc = "write" /\ max_workers = 2 /\ Exited = WorkerIds
    /\ Len(taken) > Len(chunks)
    /\ task_queue = <<>>

\* The chunk ids of the results the collecting loop has taken: the successes
\* in arrival order, then the failures.
CollectedIds ==
    [k \in 1..Len(gantt_data) |-> gantt_data[k].chunk_id] \o failed_ids

\* C25: the chunk_count results the collecting loop takes are for chunk_count
\* distinct chunk ids, whatever the algorithm, worker count and interleaving.
C25_DistinctCollected ==
    pc \in {"shutdown", "join", "write", "done"} =>
        /\ Len(CollectedIds) = Len(chunks)
        /\ \A id \in 0..(Len(chunks) - 1) : Count(CollectedIds, id) = 1

\* n divided by d, rounded up.
CeilDiv(n, d) == (n + d - 1) \div d

\* C26: splitting an input of L > 0 bytes with chunk size c >= 1 gives
\* chunks 0..n-1 with n = ceil(L/c); every chunk but the last has c bytes, the
\* last has 1..c bytes, and the chunks in id order make up the input.
C26_SplitIsPartition ==
    (operation = "encrypt" /\ pc # "begin" /\ plaintext # <<>>) =>
        LET n == Len(chunks)
        IN  /\ n = CeilDiv(Len(plaintext), chunk_size)
            /\ \A i \in 1..(n - 1) : Len(chunks[i]) = chunk_size
            /\ Len(chunks[n]) \in 1..chunk_size
            /\ Concat(chunks) = plaintext

\* Three bytes split by two: a whole chunk and a shorter last one.
C26_Witness ==
    /\ operation = "encrypt" /\ pc = "start_workers"
    /\ Len(plaintext) = 3 /\ chunk_size = 2
    /\ Len(chunks) = 2 /\ Len(chunks[2]) = 1

\* C27: for a chunk of n >= 0 bytes the padding is p = 16 - (n mod 16) bytes
\* with p in 1..16, n + p is a positive multiple of 16, the frame is the
\* 16-byte IV followed by the encryption of the chunk and p bytes of value p,
\* 16 + n + p bytes in all, and a chunk of whole blocks (the empty one
\* included) gets a full block of padding.
C27_PaddingFillsBlocks ==
    pc = "chunk" =>
        LET chunk_data == chunks[1]
            n == Len(chunk_data)
            frame == results[0]
            p == Len(frame) - BlockSize - n
            padded_data == cbc_decrypt(key, SubSeq(frame, 1, BlockSize),
                                       SubSeq(frame, BlockSize + 1, Len(frame)))
        IN  /\ p \in 1..BlockSize
            /\ p = BlockSize - (n % BlockSize)
            /\ n + p > 0 /\ (n + p) % BlockSize = 0
            /\ n % BlockSize = 0 => p = BlockSize
            /\ Len(padded_data) = n + p
            /\ SubSeq(padded_data, 1, n) = chunk_data
            /\ \A j \in (n + 1)..(n + p) : padded_data[j] = p

\* A chunk of two whole blocks has a frame of four: IV, data, padding.
C27_Witness ==
    /\ pc = "chunk"
    /\ Len(chunks[1]) = 2 * BlockSize
    /\ Len(results[0]) = 4 * BlockSize

\* Between two consecutive slices of one task no other task has two slices:
\* an unfinished task goes to the tail of the ready queue.
TailRequeued(ids) ==
    \A i \in 1..Len(ids) : \A j \in (i + 1)..Len(ids) :
        (ids[j] = ids[i] /\ \A m \in (i + 1)..(j - 1) : ids[m] # ids[i]) =>
            \A m \in (i + 1)..(j - 1) :
                \A l \in (m + 1)..(j - 1) : ids[l] # ids[m]

\* C28: with Round Robin and a quantum q > 0, schedule_tasks terminates; each
\* slice consumes min(q, remaining) of its task; an unfinished task is put
\* back at the tail of the ready queue; for every task the consumed amounts
\* sum to its size, in ceil(size/q) slices (one slice for a task of size 0).
C28_RoundRobinSlices ==
    (algorithm = "Round Robin" /\ time_quantum > 0 /\ calls > 0) =>
        /\ SchedReturned
        /\ \A k \in 1..Len(scheduled_tasks) :
              LET id == scheduled_tasks[k].task_id
              IN  scheduled_tasks[k].size =
                      Min(time_quantum,
                          sched_input[id + 1].remaining_time
                              - Consumed(scheduled_tasks, id, k - 1))
        /\ TailRequeued(TaskIds(scheduled_tasks))
        /\ \A i \in 1..Len(sched_input) :
              LET id == sched_input[i].task_id
                  size == sched_input[i].size
              IN  /\ Consumed(scheduled_tasks, id, Len(scheduled_tasks)) = size
                  /\ Count(TaskIds(scheduled_tasks), id) =
                        IF size = 0 THEN 1 ELSE CeilDiv(size, time_quantum)

\* C29: schedule_tasks leaves the registered tasks as they were (size and
\* remaining time), so a second call on the same tasks returns the same
\* task-id sequence as the first, for every algorithm.
C29_ScheduleLeavesTasks ==
    SchedReturned =>
        /\ \A i \in 1..Len(sched_input) : tasks[i] = sched_input[i]
        /\ Len(tasks) = Len(sched_input) =>
              TaskIds(schedule_tasks(algorithm, time_quantum, tasks).out)
                  = TaskIds(scheduled_tasks)

\* C30: when the TaskScheduler of one run is passed to a second run, the
\* tasks of the first run are gone: the second run schedules one task per
\* chunk of its own input, and its schedule holds only those chunks' ids.
C30_TasksOfThisRunOnly ==
    (operation = "decrypt" /\ (pc = "dispatch" \/ Dispatched)) =>
        /\ Len(sched_input) = Len(chunks)
        /\ \A i \in 1..Len(sched_input) :
              /\ sched_input[i].task_id = i - 1
              /\ sched_input[i].size = Len(chunks[i])
        /\ \A k \in 1..Len(scheduled_tasks) :
              scheduled_tasks[k].task_id < Len(chunks)

\* The call has returned or raised.
RunEnded == pc \in {"done", "failed"}

\* The worker threads that are started and have not exited.
Running == {w \in WorkerIds : wstate[w] \in {"polling", "working"}}

\* C31: when encrypt_file_parallel or decrypt_file_parallel has returned or
\* raised, every worker it started has exited or has a sentinel waiting for it
\* on the task queue: none is left polling the queue for ever.
C31_NoWorkerLeftPolling ==
    RunEnded => Cardinality(Running) <= Cardinality(QueuedSentinels)

\* C32: a run with no worker does not block in the collecting step: the loop
\* is never waiting on an empty result queue that no worker will fill.
C32_NoWorkersNoHang ==
    max_workers = 0 =>
        ~(pc = "collect" /\ loop_i < Len(chunks) /\ result_queue = <<>>)

\* The chunk ids of the results waiting on the result queue.
QueuedResultIds == [k \in 1..Len(result_queue) |-> result_queue[k].chunk_id]

\* The workers that have taken the task of chunk id and put no result yet.
Processing(id) ==
    {w \in WorkerIds : wstate[w] = "working" /\ wtask[w].chunk_id = id}

\* Every task taken is in progress or has one result, queued or collected.
TakenAccounted ==
    /\ Len(taken) = Len(CollectedIds) + Len(result_queue)
                      + Cardinality({w \in WorkerIds : wstate[w] = "working"})
    /\ \A id \in 0..(Len(chunks) - 1) :
          Count(taken, id) = Count(CollectedIds, id)
                             + Count(QueuedResultIds, id)
                             + Cardinality(Processing(id))

\* A take puts no result; a result is put by the one worker that finishes a
\* task, tagged with that task's chunk id and that worker's id; a worker
\* leaves a task only by putting its result.
ResultPerTaskStep ==
    /\ \A w \in WorkerIds :
          (wstate[w] = "polling" /\ wstate'[w] = "working") =>
             /\ wtask'[w] = Head(task_queue)
             /\ taken' = Append(taken, wtask'[w].chunk_id)
             /\ result_queue' = result_queue
    /\ \A w \in WorkerIds :
          (wstate[w] = "working" /\ wstate'[w] # "working") =>
             /\ Len(result_queue') = Len(result_queue) + 1
             /\ SubSeq(result_queue', 1, Len(result_queue)) = result_queue
             /\ result_queue'[Len(result_queue')].chunk_id = wtask[w].chunk_id
             /\ result_queue'[Len(result_queue')].worker_id = w
             /\ result_queue'[Len(result_queue')].success \in BOOLEAN
    /\ Len(result_queue') > Len(result_queue) =>
          Cardinality({w \in WorkerIds :
                          wstate[w] = "working" /\ wstate'[w] # "working"}) = 1

\* C33: every chunk task a worker takes produces exactly one result on the
\* result queue, a success or a failure, tagged with the task's chunk id and
\* the id of the worker that took it; no task is taken without a result and
\* no result is produced without a task.
C33_OneResultPerTask == [][ResultPerTaskStep /\ TakenAccounted']_vars

\* Two workers: three tasks taken, one in progress, one result queued and
\* one collected.
C33_Witness ==
    /\ max_workers = 2 /\ Len(taken) = 3
    /\ Cardinality({w \in WorkerIds : wstate[w] = "working"}) = 1
    /\ Len(result_queue) = 1 /\ Len(CollectedIds) = 1

\* C34: during and after the collecting step, the bytes stored in results
\* under chunk id i were computed from input chunk i, whatever the order in
\* which the workers finished.
C34_ResultsMatchChunks ==
    Dispatched =>
        \A i \in DOMAIN results :
            /\ i \in 0..(Len(chunks) - 1)
            /\ IF operation = "encrypt"
               THEN \E v \in IVs :
                       results[i] = encrypt_chunk(chunks[i + 1], key, IVBytes(v))
               ELSE /\ decrypt_chunk(chunks[i + 1], key).ok
                    /\ results[i] = decrypt_chunk(chunks[i + 1], key).data

\* Under FCFS the result of chunk 1 arrived before that of chunk 0, and both
\* are stored.
C34_Witness ==
    /\ pc = "collect" /\ algorithm = "FCFS" /\ max_workers = 2
    /\ DOMAIN results = {0, 1}
    /\ gantt_data[1].chunk_id = 1

====
